---- MODULE Spec2Model ----
(***************************************************************************)
(* waysaver (src/src/main.rs): a screensaver overlay for wlroots           *)
(* compositors.  One layer-shell window per monitor, a shared InputState   *)
(* that latches "should close" on key events or on more than               *)
(* MOUSE_THRESHOLD pixels of accumulated pointer travel, a 16 ms fade      *)
(* timer per window and one 50 ms watchdog timer that closes every window  *)
(* and quits the application once the latch is set.                        *)
(*                                                                         *)
(* All callbacks run on the single GLib main loop, so every callback is    *)
(* one atomic action.                                                      *)
(*                                                                         *)
(* Numbers.  Pointer coordinates are drawn from an integer grid.  f64      *)
(* distances are kept in fixed point, Unit parts per pixel, and the square *)
(* root is the integer square root of the scaled square (rounded down),    *)
(* so a distance that is a whole number of pixels is exact.  Opacity is    *)
(* kept as the exact rational opacity * fade_duration_ms.                  *)
(***************************************************************************)
EXTENDS Integers, Sequences, FiniteSets, TLC

(* ------------------------------ bounds -------------------------------- *)

\* Most monitors the display enumerates.
MaxMonitors == 2

\* Most pointer-motion events delivered in one run.
MaxMoves == 3

\* Fixed-point parts per pixel of a distance.
Unit == 1000

\* Pointer positions delivered by the toolkit (surface coordinates).
Points == { <<0, 0>>, <<5, 0>>, <<10, 0>>, <<11, 0>>, <<3, 4>>, <<1, 1>> }

\* The positions used where every timer interleaves as well.
PointsCore == { <<0, 0>>, <<11, 0>> }

(* --------------------------- program constants ------------------------ *)

MOUSE_THRESHOLD == 10

fade_duration_ms == 200

frame_time_ms == 16

(* ------------------------------ strings ------------------------------- *)

HttpPrefix == <<"h", "t", "t", "p", ":", "/", "/">>

HttpsPrefix == <<"h", "t", "t", "p", "s", ":", "/", "/">>

FilePrefix == <<"f", "i", "l", "e", ":", "/", "/">>

starts_with(s, p) == Len(s) >= Len(p) /\ SubSeq(s, 1, Len(p)) = p

\* The file system the process sees: the paths that exist, and for each the
\* result of canonicalize (<<>> when canonicalize fails).
ExistingPaths == { <<"a">>, <<"l">> }

canonicalize(path) == IF path = <<"a">> THEN <<"/", "w", "/", "a">> ELSE <<>>

\* The command lines tried.
Contents ==
    { HttpsPrefix \o <<"x">>, HttpPrefix \o <<"x">>, FilePrefix \o <<"/", "x">>,
      <<"a">>, <<"l">>, <<"n">> }

ContentsCore == { HttpsPrefix \o <<"x">>, <<"n">> }

\* resolve_content_url without the exists() test and with the canonicalize
\* error dropped.
resolve_content_url_unchecked(content) ==
    IF starts_with(content, HttpPrefix) \/ starts_with(content, HttpsPrefix)
    THEN [ok |-> TRUE, url |-> content]
    ELSE IF starts_with(content, FilePrefix)
    THEN [ok |-> TRUE, url |-> content]
    ELSE [ok |-> TRUE, url |-> FilePrefix \o content]

\* resolve_content_url: Ok(url) or Err.
resolve_content_url(content) ==
    IF starts_with(content, HttpPrefix) \/ starts_with(content, HttpsPrefix)
    THEN [ok |-> TRUE, url |-> content]
    ELSE IF starts_with(content, FilePrefix)
    THEN [ok |-> TRUE, url |-> content]
    ELSE IF content \notin ExistingPaths
    THEN [ok |-> FALSE, url |-> <<>>]
    ELSE IF canonicalize(content) = <<>>
    THEN [ok |-> FALSE, url |-> <<>>]
    ELSE [ok |-> TRUE, url |-> FilePrefix \o canonicalize(content)]

(* ------------------------------ arithmetic ---------------------------- *)

RECURSIVE SqrtBetween(_, _, _)
\* The largest r in lo..hi with r * r <= n (lo * lo <= n < (hi + 1)^2).
SqrtBetween(n, lo, hi) ==
    IF lo = hi THEN lo
    ELSE LET mid == (lo + hi + 1) \div 2
         IN  IF mid * mid <= n THEN SqrtBetween(n, mid, hi)
             ELSE SqrtBetween(n, lo, mid - 1)

Abs(a) == IF a < 0 THEN -a ELSE a

\* (dx * dx + dy * dy).sqrt() in Unit parts per pixel; the root is at most
\* |dx| + |dy|.
Distance(dx, dy) ==
    SqrtBetween((dx * dx + dy * dy) * Unit * Unit, 0, (Abs(dx) + Abs(dy)) * Unit)

Threshold == MOUSE_THRESHOLD * Unit

(* ------------------------------ InputState ---------------------------- *)

None == <<>>

Some(x, y) == <<x, y>>

\* InputState::new
InputState_new ==
    [should_close |-> FALSE, last_mouse_pos |-> None, total_movement |-> 0]

\* handle_mouse_movement writing the comparison into should_close on every
\* call, instead of only setting it.
handle_mouse_movement_recompute(self, x, y) ==
    IF self.last_mouse_pos # None
    THEN LET total == self.total_movement
                      + Distance(x - self.last_mouse_pos[1],
                                 y - self.last_mouse_pos[2])
         IN  IF total > Threshold
             THEN [state |-> [self EXCEPT !.total_movement = total,
                                          !.should_close = TRUE],
                   ret |-> TRUE]
             ELSE [state |-> [self EXCEPT !.total_movement = total,
                                          !.should_close = FALSE,
                                          !.last_mouse_pos = Some(x, y)],
                   ret |-> FALSE]
    ELSE [state |-> [self EXCEPT !.last_mouse_pos = Some(x, y),
                                 !.should_close = FALSE],
          ret |-> FALSE]

\* handle_mouse_movement recording only the first position.
handle_mouse_movement_stale(self, x, y) ==
    IF self.last_mouse_pos # None
    THEN LET total == self.total_movement
                      + Distance(x - self.last_mouse_pos[1],
                                 y - self.last_mouse_pos[2])
         IN  IF total > Threshold
             THEN [state |-> [self EXCEPT !.total_movement = total,
                                          !.should_close = TRUE],
                   ret |-> TRUE]
             ELSE [state |-> [self EXCEPT !.total_movement = total],
                   ret |-> FALSE]
    ELSE [state |-> [self EXCEPT !.last_mouse_pos = Some(x, y)], ret |-> FALSE]

\* handle_mouse_movement comparing with >= instead of >.
handle_mouse_movement_inclusive(self, x, y) ==
    IF self.last_mouse_pos # None
    THEN LET total == self.total_movement
                      + Distance(x - self.last_mouse_pos[1],
                                 y - self.last_mouse_pos[2])
         IN  IF total >= Threshold
             THEN [state |-> [self EXCEPT !.total_movement = total,
                                          !.should_close = TRUE],
                   ret |-> TRUE]
             ELSE [state |-> [self EXCEPT !.total_movement = total,
                                          !.last_mouse_pos = Some(x, y)],
                   ret |-> FALSE]
    ELSE [state |-> [self EXCEPT !.last_mouse_pos = Some(x, y)], ret |-> FALSE]

\* handle_mouse_movement returning true only on the call that sets the latch.
handle_mouse_movement_once(self, x, y) ==
    IF self.last_mouse_pos # None
    THEN LET total == self.total_movement
                      + Distance(x - self.last_mouse_pos[1],
                                 y - self.last_mouse_pos[2])
         IN  IF total > Threshold
             THEN [state |-> [self EXCEPT !.total_movement = total,
                                          !.should_close = TRUE],
                   ret |-> ~self.should_close]
             ELSE [state |-> [self EXCEPT !.total_movement = total,
                                          !.last_mouse_pos = Some(x, y)],
                   ret |-> FALSE]
    ELSE [state |-> [self EXCEPT !.last_mouse_pos = Some(x, y)], ret |-> FALSE]

\* handle_mouse_movement recording the position on the crossing call too.
handle_mouse_movement_always_update(self, x, y) ==
    IF self.last_mouse_pos # None
    THEN LET total == self.total_movement
                      + Distance(x - self.last_mouse_pos[1],
                                 y - self.last_mouse_pos[2])
         IN  IF total > Threshold
             THEN [state |-> [self EXCEPT !.total_movement = total,
                                          !.should_close = TRUE,
                                          !.last_mouse_pos = Some(x, y)],
                   ret |-> TRUE]
             ELSE [state |-> [self EXCEPT !.total_movement = total,
                                          !.last_mouse_pos = Some(x, y)],
                   ret |-> FALSE]
    ELSE [state |-> [self EXCEPT !.last_mouse_pos = Some(x, y)], ret |-> FALSE]

\* handle_mouse_movement starting the sum again once the latch is set.
handle_mouse_movement_reset(self, x, y) ==
    IF self.last_mouse_pos # None
    THEN LET total == self.total_movement
                      + Distance(x - self.last_mouse_pos[1],
                                 y - self.last_mouse_pos[2])
         IN  IF total > Threshold
             THEN [state |-> [self EXCEPT !.total_movement = 0,
                                          !.should_close = TRUE],
                   ret |-> TRUE]
             ELSE [state |-> [self EXCEPT !.total_movement = total,
                                          !.last_mouse_pos = Some(x, y)],
                   ret |-> FALSE]
    ELSE [state |-> [self EXCEPT !.last_mouse_pos = Some(x, y)], ret |-> FALSE]

\* handle_mouse_movement returning true on the crossing without setting the
\* latch.
handle_mouse_movement_nolatch(self, x, y) ==
    IF self.last_mouse_pos # None
    THEN LET total == self.total_movement
                      + Distance(x - self.last_mouse_pos[1],
                                 y - self.last_mouse_pos[2])
         IN  IF total > Threshold
             THEN [state |-> [self EXCEPT !.total_movement = total],
                   ret |-> TRUE]
             ELSE [state |-> [self EXCEPT !.total_movement = total,
                                          !.last_mouse_pos = Some(x, y)],
                   ret |-> FALSE]
    ELSE [state |-> [self EXCEPT !.last_mouse_pos = Some(x, y)], ret |-> FALSE]

\* InputState::handle_mouse_movement: the state after the call and the value
\* returned.
handle_mouse_movement(self, x, y) ==
    IF self.last_mouse_pos # None
    THEN LET dx == x - self.last_mouse_pos[1]
             dy == y - self.last_mouse_pos[2]
             distance == Distance(dx, dy)
             total == self.total_movement + distance
         IN  IF total > Threshold
             THEN [state |-> [self EXCEPT !.total_movement = total,
                                          !.should_close = TRUE],
                   ret |-> TRUE]
             ELSE [state |-> [self EXCEPT !.total_movement = total,
                                          !.last_mouse_pos = Some(x, y)],
                   ret |-> FALSE]
    ELSE [state |-> [self EXCEPT !.last_mouse_pos = Some(x, y)], ret |-> FALSE]

\* handle_key_input that reports the key but does not set the latch.
handle_key_input_unlatched(self) == [state |-> self, ret |-> TRUE]

\* InputState::handle_key_input
handle_key_input(self) ==
    [state |-> [self EXCEPT !.should_close = TRUE], ret |-> TRUE]

\* InputState::should_close
should_close(self) == self.should_close

(* ------------------------------- locks -------------------------------- *)

\* The two mutexes: input_state and windows.
Lock(m) == <<"lock", m>>

Drop(m) == <<"drop", m>>

RECURSIVE LockRun(_, _, _)
\* What the lock operations ops[i..] do when `held` is held: "relock" when a
\* held mutex is locked again (std::sync::Mutex then deadlocks or panics),
\* "both" when the two are held at once, "none" otherwise.
LockRun(ops, i, held) ==
    IF i > Len(ops) THEN "none"
    ELSE IF ops[i][1] = "drop" THEN LockRun(ops, i + 1, held \ {ops[i][2]})
    ELSE IF ops[i][2] \in held THEN "relock"
    ELSE IF held # {} THEN "both"
    ELSE LockRun(ops, i + 1, held \cup {ops[i][2]})

\* The lock operations of each callback, in program order.  A closure that
\* the toolkit can run from inside present() or close() is spliced in where
\* that call stands.
IsActiveLocks == <<>>

FadeLocks == <<>>

MotionLocks == << Lock("input_state"), Drop("input_state") >>

KeyLocks == << Lock("input_state"), Drop("input_state") >>

ActivateLocks == << Lock("windows") >> \o IsActiveLocks \o << Drop("windows") >>

CloseLocks == << Lock("windows") >> \o IsActiveLocks \o << Drop("windows") >>

\* The watchdog closure calling close() with the InputState guard still held.
WatchdogCloseLocks_nodrop ==
    << Lock("input_state") >> \o CloseLocks \o << Drop("input_state") >>

WatchdogCloseLocks ==
    << Lock("input_state"), Drop("input_state") >> \o CloseLocks

WatchdogPresentLocks ==
    << Lock("input_state"), Drop("input_state"), Lock("windows") >>
        \o IsActiveLocks \o << Drop("windows") >>

(* ------------------------------- state -------------------------------- *)

VARIABLES
    pc,           \* "start", "failed", "ready", "running", "exited"
    content,      \* args.html
    url,          \* the resolved url (<<>> before resolution)
    monitors,     \* display.monitors(): TRUE where the item downcasts to Monitor
    input_state,  \* Arc<Mutex<InputState>>
    windows,      \* Arc<Mutex<Vec<ApplicationWindow>>>
    active,       \* index of the window whose is_active() holds, 0 if none
    presented,    \* windows with a present() + grab_focus() request outstanding
    watchdog,     \* the 50 ms timer: "none", "running", "stopped"
    closeCalls,   \* calls of close()
    quitCalls,    \* calls of app.quit()
    moves,        \* the points delivered to handle_mouse_movement, in order
    rets,         \* the values handle_mouse_movement returned, in order
    keyed,        \* a key event has been handled
    lockFault     \* "none", or what a callback did with the two mutexes:
                  \* "both" (held both at once), "relock" (locked a held one)

vars ==
    << pc, content, url, monitors, input_state, windows, active, presented,
       watchdog, closeCalls, quitCalls, moves, rets, keyed, lockFault >>

trackerVars == << input_state, moves, rets, keyed >>

fleetVars == << windows, active, presented, watchdog, closeCalls, quitCalls >>

startVars == << content, url, monitors >>

MonitorLists == UNION { [1..n -> BOOLEAN] : n \in 0..MaxMonitors }

InitWith(contents) ==
    /\ pc = "start"
    /\ content \in contents
    /\ url = <<>>
    /\ monitors \in MonitorLists
    /\ input_state = InputState_new
    /\ windows = <<>>
    /\ active = 0
    /\ presented = {}
    /\ watchdog = "none"
    /\ closeCalls = 0
    /\ quitCalls = 0
    /\ moves = <<>>
    /\ rets = <<>>
    /\ keyed = FALSE
    /\ lockFault = "none"

Init == InitWith(ContentsCore)

\* lockFault after a callback with lock operations ops.
Locked(ops) == IF lockFault # "none" THEN lockFault ELSE LockRun(ops, 1, {})

(* ------------------------------ start-up ------------------------------ *)

\* main up to application.run: the url is resolved, `?` returns the error.
Main ==
    /\ pc = "start"
    /\ LET r == resolve_content_url(content)
       IN  /\ pc' = IF r.ok THEN "ready" ELSE "failed"
           /\ url' = r.url
    /\ UNCHANGED << content, monitors, trackerVars, fleetVars, lockFault >>

\* One window as the activate closure leaves it: opacity 0, fade timer started
\* (ticks counts the runs of its fade closure).
NewWindow(i) ==
    [monitor |-> i, closed |-> FALSE, opacity |-> 0, fade |-> "running",
     ticks |-> 0]

\* The monitor loop leaving at the first item that does not downcast.
BuildWindows_break(ms, i) ==
    LET bad == { j \in i..Len(ms) : ~ms[j] }
        last == IF bad = {} THEN Len(ms)
                ELSE (CHOOSE j \in bad : \A h \in bad : j <= h) - 1
    IN  [w \in 1..(last - i + 1) |-> NewWindow(i + w - 1)]

RECURSIVE BuildWindows(_, _)
\* The monitor loop of the activate closure from item i on.
BuildWindows(ms, i) ==
    IF i > Len(ms) THEN <<>>
    ELSE IF ms[i] THEN <<NewWindow(i)>> \o BuildWindows(ms, i + 1)
    ELSE BuildWindows(ms, i + 1)

\* connect_activate closure: every window is built, presented and pushed, then
\* the watchdog timer is started.
Activate ==
    /\ pc = "ready"
    /\ pc' = "running"
    /\ windows' = BuildWindows(monitors, 1)
    /\ presented' = 1..Len(windows')
    /\ watchdog' = "running"
    /\ lockFault' = Locked(ActivateLocks)
    /\ UNCHANGED << startVars, trackerVars, active, closeCalls, quitCalls >>

OpenWindows == { w \in 1..Len(windows) : ~windows[w].closed }

(* --------------------------- input callbacks -------------------------- *)

\* connect_motion closure of window w.
Motion(w, p) ==
    /\ pc = "running"
    /\ w \in OpenWindows
    /\ Len(moves) < MaxMoves
    /\ LET r == handle_mouse_movement(input_state, p[1], p[2])
       IN  /\ input_state' = r.state
           /\ rets' = Append(rets, r.ret)
    /\ moves' = Append(moves, p)
    /\ lockFault' = Locked(MotionLocks)
    /\ UNCHANGED << pc, startVars, fleetVars, keyed >>

\* connect_key_pressed / connect_key_released closure of window w.
Key(w, edge) ==
    /\ pc = "running"
    /\ w \in OpenWindows
    /\ edge \in {"pressed", "released"}
    /\ input_state' = handle_key_input(input_state).state
    /\ keyed' = TRUE
    /\ lockFault' = Locked(KeyLocks)
    /\ UNCHANGED << pc, startVars, fleetVars, moves, rets >>

(* ------------------------------- focus -------------------------------- *)

\* FocusChange with an is-active closure that does not call present().
FocusChange_noheal(k) ==
    /\ pc = "running"
    /\ k \in OpenWindows \cup {0}
    /\ k # active
    /\ active' = k
    /\ presented' = presented \ {k}
    /\ lockFault' = Locked(IsActiveLocks)
    /\ UNCHANGED << pc, startVars, trackerVars, windows, watchdog, closeCalls,
                    quitCalls >>

\* The compositor moves the keyboard focus to window k (0: to no window of the
\* fleet).  notify::is-active runs on the windows whose is_active changed; the
\* closure of the window that lost it calls present() and grab_focus().
FocusChange(k) ==
    /\ pc = "running"
    /\ k \in OpenWindows \cup {0}
    /\ k # active
    /\ active' = k
    /\ presented' = (presented \ {k}) \cup (IF active # 0 THEN {active} ELSE {})
    /\ lockFault' = Locked(IsActiveLocks)
    /\ UNCHANGED << pc, startVars, trackerVars, windows, watchdog, closeCalls,
                    quitCalls >>

\* The compositor honours the present() of window k: k becomes the active
\* window.
Grant(k) ==
    /\ k \in presented
    /\ FocusChange(k)

\* The compositor discards the present() of window k.
IgnoreRequest(k) ==
    /\ pc = "running"
    /\ k \in presented
    /\ presented' = presented \ {k}
    /\ UNCHANGED << pc, startVars, trackerVars, windows, active, watchdog,
                    closeCalls, quitCalls, lockFault >>

(* ------------------------------- timers ------------------------------- *)

\* The fade closure without the clamp to 1.0.
FadeStep_unclamped(win) ==
    LET opacity == win.opacity + frame_time_ms
    IN  IF opacity >= fade_duration_ms
        THEN [win EXCEPT !.opacity = opacity, !.fade = "stopped",
                         !.ticks = win.ticks + 1]
        ELSE [win EXCEPT !.opacity = opacity, !.ticks = win.ticks + 1]

\* The fade closure of window w.
FadeStep(win) ==
    LET opacity == win.opacity + frame_time_ms
    IN  IF opacity >= fade_duration_ms
        THEN [win EXCEPT !.opacity = fade_duration_ms, !.fade = "stopped",
                         !.ticks = win.ticks + 1]
        ELSE [win EXCEPT !.opacity = opacity, !.ticks = win.ticks + 1]

FadeTick(w) ==
    /\ pc = "running"
    /\ w \in 1..Len(windows)
    /\ windows[w].fade = "running"
    /\ windows' = [windows EXCEPT ![w] = FadeStep(windows[w])]
    /\ lockFault' = Locked(FadeLocks)
    /\ UNCHANGED << pc, startVars, trackerVars, active, presented, watchdog,
                    closeCalls, quitCalls >>

\* close() skipping the first window of the list.
close_skip_first(ws) ==
    [windows |-> [w \in 1..Len(ws) |->
                    IF w = 1 THEN ws[w] ELSE [ws[w] EXCEPT !.closed = TRUE]],
     quits |-> 1]

\* close() that also clears the list.
close_clear(ws) == [windows |-> <<>>, quits |-> 1]

\* close() that quits only after closing some window.
close_quit_nonempty(ws) ==
    [windows |-> [w \in 1..Len(ws) |-> [ws[w] EXCEPT !.closed = TRUE]],
     quits |-> IF ws = <<>> THEN 0 ELSE 1]

\* close(): window.close() on every window of the list, then app.quit() once.
\* The list itself is left as it is.
close(ws) ==
    [windows |-> [w \in 1..Len(ws) |-> [ws[w] EXCEPT !.closed = TRUE]],
     quits |-> 1]

\* A call of close().  Closing the active window takes is_active from it;
\* whether its notify::is-active closure still runs (and calls present()) is
\* the toolkit's choice.
Close ==
    /\ windows' = close(windows).windows
    /\ quitCalls' = quitCalls + close(windows).quits
    /\ closeCalls' = closeCalls + 1
    /\ active' = 0
    /\ \/ presented' = {}
       \/ /\ active # 0
          /\ presented' = {active}

\* The watchdog closure calling close() and returning Continue.
WatchdogCloseContinue ==
    /\ should_close(input_state)
    /\ Close
    /\ lockFault' = Locked(WatchdogCloseLocks)
    /\ watchdog' = watchdog

\* The watchdog closure calling close() without reading should_close().
WatchdogCloseUnguarded ==
    /\ Close
    /\ lockFault' = Locked(WatchdogCloseLocks)
    /\ watchdog' = "stopped"

\* The watchdog closure when should_close() holds: close() and Break.
WatchdogClose ==
    /\ should_close(input_state)
    /\ Close
    /\ lockFault' = Locked(WatchdogCloseLocks)
    /\ watchdog' = "stopped"

\* The watchdog closure presenting every window, active or not.
WatchdogPresent_all ==
    /\ ~should_close(input_state)
    /\ presented' = presented \cup (1..Len(windows))
    /\ lockFault' = Locked(WatchdogPresentLocks)
    /\ UNCHANGED << windows, active, watchdog, closeCalls, quitCalls >>

\* The watchdog closure otherwise: present() and grab_focus() on every window
\* that is not active, and Continue.
WatchdogPresent ==
    /\ ~should_close(input_state)
    /\ presented' = presented \cup { w \in 1..Len(windows) : w # active }
    /\ lockFault' = Locked(WatchdogPresentLocks)
    /\ UNCHANGED << windows, active, watchdog, closeCalls, quitCalls >>

WatchdogTick ==
    /\ pc = "running"
    /\ watchdog = "running"
    /\ (WatchdogClose \/ WatchdogPresent)
    /\ UNCHANGED << pc, startVars, trackerVars >>

\* application.run_with_args returns: after app.quit(), or when the
\* application holds no open window.
MainReturn ==
    /\ pc = "running"
    /\ quitCalls > 0 \/ OpenWindows = {}
    /\ pc' = "exited"
    /\ UNCHANGED << startVars, trackerVars, fleetVars, lockFault >>

(* --------------------------- specifications --------------------------- *)

Windows == 1..MaxMonitors

\* The steps of the program other than pointer motion and fading.
Steps ==
    \/ Main
    \/ Activate
    \/ \E w \in Windows, edge \in {"pressed", "released"} : Key(w, edge)
    \/ \E k \in 0..MaxMonitors : FocusChange(k)
    \/ WatchdogTick
    \/ MainReturn

\* The whole program.
Next ==
    \/ Steps
    \/ \E w \in Windows, p \in PointsCore : Motion(w, p)
    \/ \E w \in Windows : FadeTick(w)

Spec == Init /\ [][Next]_vars

\* The program without the fade timers, over the full set of pointer positions.
NextInput ==
    \/ Steps
    \/ \E w \in Windows, p \in Points : Motion(w, p)

SpecInput == Init /\ [][NextInput]_vars

\* The program with the watchdog timer firing as long as it is scheduled: a
\* GLib timeout source is dispatched every period while the main loop runs.
FairSpec == Init /\ [][NextInput]_vars /\ WF_vars(WatchdogTick)

\* close() called directly on the window list, as a test of close() does.
CloseDirect ==
    /\ pc = "running"
    /\ closeCalls = 0
    /\ Close
    /\ lockFault' = Locked(CloseLocks)
    /\ UNCHANGED << pc, startVars, trackerVars, watchdog >>

NextClose ==
    \/ Main
    \/ Activate
    \/ \E k \in 0..MaxMonitors : FocusChange(k)
    \/ \E w \in Windows : FadeTick(w)
    \/ CloseDirect
    \/ MainReturn

SpecClose == Init /\ [][NextClose]_vars

\* The program without the fade timers, with a compositor that may also
\* discard a present().
NextFocus ==
    \/ Steps
    \/ \E k \in Windows : IgnoreRequest(k)
    \/ \E w \in Windows, p \in PointsCore : Motion(w, p)

SpecFocus == Init /\ [][NextFocus]_vars

\* The program over every kind of command line.
SpecResolve == InitWith(Contents) /\ [][NextInput]_vars

\* The program left alone: no input event, no focus change other than the
\* compositor making a presented window the active one; the timers fire as
\* long as they are scheduled and every present() is honoured in the end.
NextSettle ==
    \/ Main
    \/ Activate
    \/ \E k \in Windows : Grant(k)
    \/ \E w \in Windows : FadeTick(w)
    \/ WatchdogTick
    \/ MainReturn

FairSettle ==
    /\ Init
    /\ [][NextSettle]_vars
    /\ WF_vars(WatchdogTick)
    /\ WF_vars(\E k \in Windows : Grant(k))

(* ------------------------------ properties ---------------------------- *)

RECURSIVE PathLen(_)
\* The summed Euclidean distance between consecutive points of ps.
PathLen(ps) ==
    IF Len(ps) < 2 THEN 0
    ELSE PathLen(SubSeq(ps, 1, Len(ps) - 1))
         + Distance(ps[Len(ps)][1] - ps[Len(ps) - 1][1],
                    ps[Len(ps)][2] - ps[Len(ps) - 1][2])

Prefix(ps, k) == SubSeq(ps, 1, k)

\* The first k moves travelled more than the threshold.
Crossed(k) == PathLen(Prefix(moves, k)) > Threshold

\* This step is a call of handle_mouse_movement.
MoveStep == Len(moves') = Len(moves) + 1

\* This step is a key-pressed or key-released callback.
KeyStep == \E w \in Windows, edge \in {"pressed", "released"} : Key(w, edge)

AllClosed == \A w \in 1..Len(windows) : windows[w].closed

SomeClosed == \E w \in 1..Len(windows) : windows[w].closed

ClosedSet == { w \in 1..Len(windows) : windows[w].closed }

Adapted == { i \in 1..Len(monitors) : monitors[i] }

\* C1: should_close never changes from true back to false, so over any
\* interleaving of motion, key, fade and watchdog callbacks it changes from
\* false to true at most once.
C1_LatchNeverReset ==
    [][input_state.should_close => input_state'.should_close]_vars

\* C1 witness: the latch is set and a later pointer move has been handled.
C1_Witness ==
    /\ input_state.should_close
    /\ \E i \in 1..Len(rets) : rets[i] /\ i < Len(rets)
    /\ \E w \in 1..Len(windows) : windows[w].opacity > 0

\* C2: every key-pressed and key-released callback, on any window, leaves
\* should_close true, whatever the pointer history before it.
C2_KeyDismisses == [][KeyStep => input_state'.should_close]_vars

\* C2 witness: a key was handled after pointer travel below the threshold.
C2_Witness ==
    /\ keyed
    /\ input_state.should_close
    /\ Len(moves) >= 2
    /\ input_state.total_movement > 0
    /\ input_state.total_movement <= Threshold

\* C3 as claimed: after any sequence of pointer moves, also those delivered
\* after the threshold was crossed, total_movement is the summed distance
\* between consecutive points.
C3_TotalIsPathLength == input_state.total_movement = PathLen(moves)

\* C3 amended: as long as no move before the last one returned true,
\* total_movement is the summed distance between consecutive points.
C3_TotalIsPathLengthUntilCrossed ==
    (\A i \in 1..Len(rets) : rets[i] => i = Len(rets))
        => input_state.total_movement = PathLen(moves)

\* C3 witness: three moves, the last one crossing the threshold.
C3_Witness ==
    /\ Len(moves) = 3
    /\ rets = <<FALSE, FALSE, TRUE>>
    /\ input_state.total_movement = PathLen(moves)
    /\ input_state.total_movement > Threshold

\* C4: without key events, should_close holds exactly when some prefix of the
\* moves travelled more than the threshold; every call before the first such
\* prefix returned false and the call completing it returned true.
C4_DismissedIffPathCrossed ==
    ~keyed =>
        /\ input_state.should_close <=> \E k \in 1..Len(moves) : Crossed(k)
        /\ \A i \in 1..Len(rets) :
              /\ ~Crossed(i) => ~rets[i]
              /\ (Crossed(i) /\ ~Crossed(i - 1)) => rets[i]

\* C4 witness: (0,0), (5,0), (11,0) returned false, false, true.
C4_Witness ==
    /\ ~keyed
    /\ moves = << <<0, 0>>, <<5, 0>>, <<11, 0>> >>
    /\ rets = <<FALSE, FALSE, TRUE>>
    /\ input_state.should_close

\* C5 as claimed: handle_mouse_movement returns true exactly when should_close
\* was false before the call and is true after it.
C5_ReturnsTrueOnlyWhenCausing ==
    [][MoveStep =>
         (rets'[Len(rets')]
            <=> (~input_state.should_close /\ input_state'.should_close))]_vars

\* C5 amended: handle_mouse_movement returns true exactly when it leaves
\* total_movement above the threshold; then should_close is true after the
\* call, and when should_close was false before the call this is exactly the
\* call causing dismissal.
C5_ReturnsTrueIffOverThreshold ==
    [][MoveStep =>
         /\ rets'[Len(rets')] <=> input_state'.total_movement > Threshold
         /\ rets'[Len(rets')] => input_state'.should_close
         /\ ~input_state.should_close =>
               (rets'[Len(rets')] <=> input_state'.should_close)]_vars

\* C5 witness: two calls returned true.
C5_Witness ==
    \E i, j \in 1..Len(rets) : i < j /\ rets[i] /\ rets[j]

\* C6: close() and app.quit() are called at most once in a run, the watchdog
\* tick that calls close() stops the timer, and no watchdog tick runs after it.
C6_TeardownOnce ==
    /\ [](closeCalls <= 1 /\ quitCalls <= 1)
    /\ [](closeCalls > 0 => watchdog = "stopped")
    /\ [][(WatchdogTick /\ should_close(input_state))
             => (closeCalls' = closeCalls + 1 /\ watchdog' = "stopped")]_vars
    /\ [][closeCalls > 0 => ~WatchdogTick]_vars

\* C6 witness: a key dismissed, and the watchdog has torn down two windows.
C6_Witness ==
    /\ keyed
    /\ closeCalls = 1
    /\ quitCalls = 1
    /\ watchdog = "stopped"
    /\ Len(windows) = 2

\* C7: once should_close is set, the watchdog eventually leaves every window
\* closed and the application told to quit; the one tick that observes the
\* latch does both, and quit is never signalled while a window is open.
C7_DismissalLeadsToTeardown ==
    /\ input_state.should_close ~> (AllClosed /\ quitCalls = 1)
    /\ [](quitCalls > 0 => AllClosed)
    /\ [][(WatchdogTick /\ should_close(input_state))
             => (AllClosed' /\ quitCalls' = 1)]_vars

\* C7 witness: pointer travel dismissed, two windows closed and quit signalled.
C7_Witness ==
    /\ ~keyed
    /\ input_state.should_close
    /\ Len(windows) = 2
    /\ AllClosed
    /\ quitCalls = 1

\* C8: a window is closed or quit is signalled only when should_close holds,
\* and only by a watchdog tick that read should_close as true.
C8_TeardownOnlyViaWatchdog ==
    /\ []((SomeClosed \/ quitCalls > 0) => input_state.should_close)
    /\ [][(ClosedSet' # ClosedSet \/ quitCalls' # quitCalls
             \/ closeCalls' # closeCalls)
           => (WatchdogTick /\ should_close(input_state))]_vars

\* C8 witness: windows that had begun to fade are closed and quit is signalled.
C8_Witness ==
    /\ SomeClosed
    /\ quitCalls = 1
    /\ input_state.should_close
    /\ \E w \in 1..Len(windows) : windows[w].opacity > 0 /\ windows[w].fade = "running"

C10_EmptyTeardownQuitsOnce ==
    /\ []((closeCalls = 1 /\ windows = <<>>) => quitCalls = 1)
    /\ [][(CloseDirect /\ windows = <<>>)
             => (windows' = <<>> /\ quitCalls' = quitCalls + 1)]_vars

\* C10 witness: close() has run with no window in the list.
C10_Witness ==
    /\ closeCalls = 1
    /\ windows = <<>>
    /\ quitCalls = 1

\* C11: every opacity a fade closure sets lies in [0, 1] and is not below the
\* one before; opacity 1.0 is reached on the 13th tick at the latest, the
\* timer stops on exactly the tick that reaches 1.0, and a stopped timer's
\* window keeps its opacity.
C11_FadeReachesOneAndStops ==
    /\ [](\A w \in 1..Len(windows) :
            /\ windows[w].opacity >= 0
            /\ windows[w].opacity <= fade_duration_ms
            /\ windows[w].ticks <= 13
            /\ windows[w].ticks = 13 => windows[w].opacity = fade_duration_ms
            /\ windows[w].fade = "stopped"
                  <=> windows[w].opacity = fade_duration_ms)
    /\ [][\A w \in 1..Len(windows) :
            /\ windows'[w].opacity >= windows[w].opacity
            /\ windows[w].fade = "stopped" =>
                  (windows'[w].opacity = windows[w].opacity
                     /\ windows'[w].ticks = windows[w].ticks)]_vars

\* C11 witness: a window's fade timer has stopped at opacity 1.0 after its
\* 13th tick while another window is still fading.
C11_Witness ==
    \E v, w \in 1..Len(windows) :
        /\ windows[v].fade = "stopped"
        /\ windows[v].opacity = fade_duration_ms
        /\ windows[v].ticks = 13
        /\ windows[w].fade = "running"
        /\ windows[w].opacity > 0

\* C12 as claimed: once the watchdog has run close(), no window is presented
\* or given focus again, not even by the is-active closure of a window that
\* close() has just made inactive.
C12_NoPresentAfterTeardown == closeCalls > 0 => presented = {}

\* C13: after activation the list holds exactly one window per monitor that
\* downcast, in the order of the monitor list; a monitor that did not
\* downcast is skipped, the monitors after it still get their window, and the
\* watchdog timer has been started.
C13_OneWindowPerAdaptedMonitor ==
    pc \in {"running", "exited"} =>
        /\ { windows[w].monitor : w \in 1..Len(windows) } = Adapted
        /\ \A v, w \in 1..Len(windows) :
              v < w => windows[v].monitor < windows[w].monitor
        /\ watchdog \in {"running", "stopped"}

\* C13 witness: the first monitor did not downcast, a later one did and has
\* its window, and the watchdog runs.
C13_Witness ==
    /\ pc = "running"
    /\ Len(monitors) >= 2
    /\ ~monitors[1]
    /\ monitors[Len(monitors)]
    /\ Len(windows) >= 1
    /\ windows[Len(windows)].monitor = Len(monitors)
    /\ watchdog = "running"

\* The command line names a scheme.
HasScheme(c) ==
    \/ starts_with(c, HttpPrefix)
    \/ starts_with(c, HttpsPrefix)
    \/ starts_with(c, FilePrefix)

\* The command line is a local path that is missing or does not canonicalize.
BadPath(c) == ~HasScheme(c) /\ (c \notin ExistingPaths \/ canonicalize(c) = <<>>)

\* C14: a local path that does not exist or does not canonicalize ends the run
\* as failed with no window created and no timer started; an http://, https://
\* or file:// argument never fails and becomes the URL unchanged.
C14_ResolutionFailureBeforeAnySurface ==
    /\ pc = "failed" =>
          /\ windows = <<>>
          /\ watchdog = "none"
          /\ presented = {}
          /\ closeCalls = 0
          /\ quitCalls = 0
    /\ (pc # "start" /\ BadPath(content)) => pc = "failed"
    /\ (pc # "start" /\ HasScheme(content)) => (pc # "failed" /\ url = content)

\* C14 witness: an existing path that does not canonicalize has failed the
\* run.
C14_Witness ==
    /\ pc = "failed"
    /\ content \in ExistingPaths
    /\ canonicalize(content) = <<>>

\* C15: a watchdog tick that reads should_close as false calls present() on
\* exactly the windows that are not active and keeps the timer; the tick that
\* reads should_close as true leaves no present() request behind other than
\* the is-active closure's for the window that was active.
C15_WatchdogTickPresentsInactive ==
    /\ [][(WatchdogTick /\ ~should_close(input_state))
            => /\ presented' =
                     presented \cup { w \in 1..Len(windows) : w # active }
               /\ watchdog' = "running"
               /\ closeCalls' = closeCalls]_vars
    /\ [][(WatchdogTick /\ should_close(input_state))
            => presented' \subseteq ({active} \ {0})]_vars

\* C15 witness: the tick that read should_close as true has run on two
\* windows, after pointer travel, and left no present() request behind.
C15_Witness ==
    /\ closeCalls = 1
    /\ watchdog = "stopped"
    /\ ~keyed
    /\ Len(windows) = 2
    /\ AllClosed
    /\ presented = {}

\* C16: no callback takes a mutex while it holds the other one, and none
\* takes a mutex it already holds, the closures run from inside present() and
\* close() under the windows mutex included.
C16_LockDiscipline == lockFault = "none"

\* C16 witness: motion and key closures, the activate closure and the
\* watchdog closure with its call of close() have all run.
C16_Witness ==
    /\ lockFault = "none"
    /\ Len(moves) >= 1
    /\ keyed
    /\ closeCalls = 1
    /\ Len(windows) = 2
    /\ watchdog = "stopped"

\* C17: a call of handle_mouse_movement(x, y) that returns true leaves
\* last_mouse_pos as it was and one that returns false sets it to (x, y);
\* handle_key_input and the watchdog's should_close() leave last_mouse_pos
\* and total_movement as they were.
C17_FrameEffects ==
    /\ [][MoveStep =>
            LET p == moves'[Len(moves')]
            IN  IF rets'[Len(rets')]
                THEN input_state'.last_mouse_pos = input_state.last_mouse_pos
                ELSE input_state'.last_mouse_pos = Some(p[1], p[2])]_vars
    /\ [][KeyStep =>
            /\ input_state'.last_mouse_pos = input_state.last_mouse_pos
            /\ input_state'.total_movement = input_state.total_movement]_vars
    /\ [][WatchdogTick => input_state' = input_state]_vars

\* C17 witness: the last call returned true and the recorded position is
\* still the point of the call before it; a key was handled as well.
C17_Witness ==
    /\ Len(moves) >= 2
    /\ rets[Len(rets)]
    /\ ~rets[Len(rets) - 1]
    /\ input_state.last_mouse_pos = moves[Len(moves) - 1]
    /\ input_state.last_mouse_pos # moves[Len(moves)]
    /\ keyed

\* C18: no motion, key, focus or watchdog step lowers total_movement, before
\* or after should_close is set and after close() has run.
C18_TotalNeverDecreases ==
    [][input_state'.total_movement >= input_state.total_movement]_vars

\* C18 witness: the pointer kept moving after the crossing, total_movement
\* grew past twice the threshold, and close() has run since.
C18_Witness ==
    /\ closeCalls = 1
    /\ \E i \in 1..Len(rets) : rets[i] /\ i < Len(rets)
    /\ input_state.total_movement > 2 * Threshold

\* C19: should_close holds exactly when a key event has been handled or
\* total_movement is above the threshold.
C19_DismissedIffKeyOrOverThreshold ==
    input_state.should_close
        <=> (keyed \/ input_state.total_movement > Threshold)

\* C19 witness: without any key event, the second pointer move took
\* total_movement above the threshold and set should_close.
C19_Witness ==
    /\ ~keyed
    /\ Len(moves) = 2
    /\ input_state.total_movement > Threshold
    /\ input_state.should_close
    /\ closeCalls = 0

\* C20 as claimed: left alone, the program reaches a state from which on no
\* present() request is outstanding.
C20_FocusSettles == <>[](presented = {})

\* C20 amended: a list of at most one window settles once that window is
\* active; with two or more windows some window is inactive at every moment
\* and has a present() request outstanding, so requests never cease.
C20_SettlesOnlyWithOneWindow ==
    /\ <>[](Len(windows) <= 1 => presented = {})
    /\ []((pc = "running" /\ Len(windows) >= 2) => presented # {})

\* C20 witness: the last window has been made active, its present() request
\* is gone, and the window before it has one outstanding again.
C20_Witness ==
    /\ pc = "running"
    /\ Len(windows) >= 2
    /\ active = Len(windows)
    /\ presented = (1..Len(windows)) \ {active}
    /\ \A w \in 1..Len(windows) : windows[w].fade = "stopped"

====
